---- MODULE Spec2Model ----
(***************************************************************************)
(* A model of refry's helpers (src/src/helpers/index.js): the resolver     *)
(* findInState over the cache state, the parameter canonicalizer           *)
(* normalizeParams, the cache key requestKey and the resource definition   *)
(* normalizer normalizeResourceDefinition.                                 *)
(*                                                                         *)
(* JavaScript values are tagged records, so that values of different       *)
(* JavaScript types can be compared: undefined, false, arrays, numbers,    *)
(* entities (objects with an id and a name) and the empty object {}.       *)
(***************************************************************************)
EXTENDS Integers, Sequences, FiniteSets, TLC

VARIABLES connect, last, args, ret

vars == <<connect, last, args, ret>>

(***************************************************************************)
(* Bounds of the model.                                                    *)
(***************************************************************************)
\* the longest id list a response carries
MaxLen == 2
\* the numbers among the values of headers and bodies are 1..MaxNum
MaxNum == 1

(***************************************************************************)
(* JavaScript values.                                                      *)
(***************************************************************************)
Undefined == [t |-> "undefined"]
False == [t |-> "false"]
True == [t |-> "true"]
Bool(b) == IF b THEN True ELSE False
EmptyObject == [t |-> "emptyobject"]
Num(n) == [t |-> "number", n |-> n]
Arr(s) == [t |-> "array", items |-> s]
Entity(id, name) == [t |-> "entity", id |-> id, name |-> name]
\* no call has been made, or its result has been taken
NoResult == [t |-> "none"]

\* JavaScript's ToBoolean on the values of the model: arrays and objects
\* (the empty ones too) are truthy, undefined and false are falsy, 0 is falsy.
Truthy(v) ==
  CASE v.t = "undefined" -> FALSE
    [] v.t = "false" -> FALSE
    [] v.t = "number" -> v.n # 0
    [] OTHER -> TRUE

Ids == {1, 2}
Names == {"a", "b"}
SchemaKeys == {"user", "post"}
\* the cache slots: two values of the 32-bit string hash
RequestKeys == {17, 42}

Entities == {Entity(i, n) : i \in Ids, n \in Names}

\* the sequences over S of length at most n
RECURSIVE SeqsOver(_, _)
SeqsOver(S, n) ==
  IF n = 0 THEN {<<>>}
  ELSE LET shorter == SeqsOver(S, n - 1)
       IN shorter \cup {Append(s, x) : s \in {q \in shorter : Len(q) = n - 1}, x \in S}

Range(s) == {s[i] : i \in DOMAIN s}
\* the id lists of a response (normalizr's result, which may repeat an id)
IdLists == SeqsOver({Num(i) : i \in Ids}, MaxLen)

(***************************************************************************)
(* Strings are sequences of one-character strings, so that encoding,       *)
(* sorting and hashing work on the characters.                             *)
(***************************************************************************)
Str(s) == [t |-> "string", s |-> s]
Null == [t |-> "null"]
\* an object is the sequence of its own properties, in insertion order
Prop(k, v) == [k |-> k, v |-> v]
Obj(props) == [t |-> "object", props |-> props]
TypeError == [t |-> "throw", error |-> "TypeError"]

\* typeof v === 'object'
TypeofObject(v) == v.t \in {"object", "null", "array"}

\* the printable ASCII characters, from code 33 on (the grave accent, which
\* no string of the model holds, is spelled out)
Ascii ==
 <<
    "!", "\"", "#", "$", "%", "&", "'", "(", ")", "*", "+", ",",
    "-", ".", "/", "0", "1", "2", "3", "4", "5", "6", "7", "8",
    "9", ":", ";", "<", "=", ">", "?", "@", "A", "B", "C", "D",
    "E", "F", "G", "H", "I", "J", "K", "L", "M", "N", "O", "P",
    "Q", "R", "S", "T", "U", "V", "W", "X", "Y", "Z", "[", "\\",
    "]", "^", "_", "grave", "a", "b", "c", "d", "e", "f", "g", "h",
    "i", "j", "k", "l", "m", "n", "o", "p", "q", "r", "s", "t",
    "u", "v", "w", "x", "y", "z", "{", "|", "}", "~"
 >>

CodeOf == [c \in Range(Ascii) |-> 32 + CHOOSE i \in DOMAIN Ascii : Ascii[i] = c]
\* str.charCodeAt
CharCode(c) == CodeOf[c]

RECURSIVE Flatten(_)
Flatten(ss) == IF ss = <<>> THEN <<>> ELSE Head(ss) \o Flatten(Tail(ss))

RECURSIVE Join(_, _)
Join(ss, sep) ==
  IF ss = <<>> THEN <<>>
  ELSE IF Len(ss) = 1 THEN Head(ss)
  ELSE Head(ss) \o sep \o Join(Tail(ss), sep)

\* the decimal digits of a natural number
RECURSIVE Digits(_)
Digits(n) ==
  LET d == SubSeq(Ascii, 16 + (n % 10), 16 + (n % 10))
  IN IF n < 10 THEN d ELSE Digits(n \div 10) \o d

HexDigit(n) == IF n < 10 THEN Ascii[16 + n] ELSE Ascii[23 + n]

\* the characters encodeURIComponent leaves alone: A-Z a-z 0-9 - _ . ! ~ * ' ( )
Unreserved ==
  {c \in Range(Ascii) :
     \/ CharCode(c) \in 48..57
     \/ CharCode(c) \in 65..90
     \/ CharCode(c) \in 97..122
     \/ c \in {"-", "_", ".", "!", "~", "*", "'", "(", ")"}}

EncodeChar(c) ==
  IF c \in Unreserved
  THEN <<c>>
  ELSE <<"%", HexDigit(CharCode(c) \div 16), HexDigit(CharCode(c) % 16)>>

encodeURIComponent(s) == Flatten([i \in DOMAIN s |-> EncodeChar(s[i])])

\* JSON.stringify of a string: quoted, with " and \ escaped
JsonString(s) ==
  <<"\"">> \o
  Flatten([i \in DOMAIN s |->
             IF s[i] \in {"\"", "\\"} THEN <<"\\", s[i]>> ELSE <<s[i]>>]) \o
  <<"\"">>

\* JSON.stringify: the properties of an object in their insertion order
RECURSIVE JsonStringify(_)
JsonStringify(v) ==
  CASE v.t = "null" -> <<"n", "u", "l", "l">>
    [] v.t = "number" -> Digits(v.n)
    [] v.t = "string" -> JsonString(v.s)
    [] v.t = "object" ->
         <<"{">> \o
         Join([i \in DOMAIN v.props |->
                 JsonString(v.props[i].k) \o <<":">> \o JsonStringify(v.props[i].v)],
              <<",">>) \o
         <<"}">>

\* querystring's stringifyPrimitive
stringifyPrimitive(v) ==
  CASE v.t = "string" -> v.s
    [] v.t = "number" -> Digits(v.n)
    [] OTHER -> <<>>

\* querystring.stringify: key=value pairs in the object's order, joined by &
querystringStringify(obj) ==
  Join([i \in DOMAIN obj.props |->
          encodeURIComponent(obj.props[i].k) \o <<"=">> \o
          encodeURIComponent(stringifyPrimitive(obj.props[i].v))],
       <<"&">>)

\* the order of Array.prototype.sort on strings: by code units
RECURSIVE StringLess(_, _)
StringLess(a, b) ==
  IF a = <<>> THEN b # <<>>
  ELSE IF b = <<>> THEN FALSE
  ELSE IF Head(a) = Head(b) THEN StringLess(Tail(a), Tail(b))
  ELSE CharCode(Head(a)) < CharCode(Head(b))

RECURSIVE InsertProp(_, _)
InsertProp(p, sorted) ==
  IF sorted = <<>> THEN <<p>>
  ELSE IF StringLess(p.k, Head(sorted).k) THEN <<p>> \o sorted
  ELSE <<Head(sorted)>> \o InsertProp(p, Tail(sorted))

RECURSIVE SortProps(_)
SortProps(props) ==
  IF props = <<>> THEN <<>> ELSE InsertProp(Head(props), SortProps(Tail(props)))

\* _sortObject: the keys sorted, the values that are objects sorted in turn
\* (Object.keys(null) throws)
RECURSIVE _sortObject(_)
_sortObject(obj) ==
  IF obj.t = "undefined" THEN Obj(<<>>)
  ELSE IF obj.t = "null" THEN TypeError
  ELSE LET sorted == SortProps(obj.props)
           values == [i \in DOMAIN sorted |->
                        IF TypeofObject(sorted[i].v)
                        THEN _sortObject(sorted[i].v)
                        ELSE sorted[i].v]
       IN IF \E i \in DOMAIN values : values[i] = TypeError
          THEN TypeError
          ELSE Obj([i \in DOMAIN sorted |-> Prop(sorted[i].k, values[i])])

\* lines 35-39: every value that is an object (or null) is replaced, in the
\* caller's object, by its JSON text
StringifyNested_everyValue(params) ==
  IF params.t = "undefined" THEN Obj(<<>>)
  ELSE Obj([i \in DOMAIN params.props |->
              Prop(params.props[i].k, Str(JsonStringify(params.props[i].v)))])
StringifyNested(params) ==
  IF params.t = "undefined" THEN Obj(<<>>)
  ELSE Obj([i \in DOMAIN params.props |->
              Prop(params.props[i].k,
                   IF TypeofObject(params.props[i].v)
                   THEN Str(JsonStringify(params.props[i].v))
                   ELSE params.props[i].v)])

normalizeParams(params) == querystringStringify(_sortObject(StringifyNested(params)))

\* bitwise exclusive or of two numbers of n bits
RECURSIVE Xor(_, _, _)
Xor(a, b, n) ==
  IF n = 0 THEN 0
  ELSE ((a + b) % 2) + 2 * Xor(a \div 2, b \div 2, n - 1)

\* one round of string-hash: (hash * 33) ^ charCode, as an unsigned 32-bit
\* number, kept here as its two 16-bit halves
HashStep(h, c) ==
  LET lo33 == h.lo * 33
      lo == lo33 % 65536
      hi == (h.hi * 33 + lo33 \div 65536) % 65536
  IN [hi |-> hi, lo |-> (lo - (lo % 128)) + Xor(lo % 128, CharCode(c), 7)]

\* the rounds for the characters i..j of s, from the last to the first
RECURSIVE HashFrom(_, _, _, _)
HashFrom(s, i, j, h) ==
  IF i > j THEN h
  ELSE IF i = j THEN HashStep(h, s[i])
  ELSE LET mid == (i + j) \div 2
           upper == HashFrom(s, mid + 1, j, h)
       IN IF upper.lo >= 0 THEN HashFrom(s, i, mid, upper) ELSE h

\* string-hash: hash = 5381; while (i) hash = (hash * 33) ^ str.charCodeAt(--i)
stringHash(s) == HashFrom(s, 1, Len(s), [hi |-> 0, lo |-> 5381])

\* String(v) of a field handed to encodeURIComponent
StringOf(v) ==
  IF v.t = "undefined" THEN <<"u", "n", "d", "e", "f", "i", "n", "e", "d">> ELSE v.s

\* the string requestKey hashes: the four fields, each URL-component-encoded,
\* joined by |
KeyString(definition) ==
  Join(<<encodeURIComponent(StringOf(definition.method)),
         encodeURIComponent(StringOf(definition.url)),
         encodeURIComponent(normalizeParams(definition.headers)),
         encodeURIComponent(normalizeParams(definition.body))>>,
       <<"|">>)

requestKey(definition) == stringHash(KeyString(definition))

(***************************************************************************)
(* Schemas: a singular schema exposes getKey, a collection schema exposes  *)
(* only getItemSchema.                                                     *)
(***************************************************************************)
Singular(k) == [kind |-> "singular", key |-> k]
Collection(k) == [kind |-> "collection", item |-> Singular(k)]

\* a schema given as a string: a value with no getKey and no getItemSchema
Shorthand(k) == [kind |-> "string", s |-> k]

\* schema.getKey is defined
HasGetKey(schema) == schema.kind = "singular"
\* schema.getItemSchema is defined
HasGetItemSchema(schema) == schema.kind = "collection"

\* calling getItemSchema on a value that has none throws a TypeError
schemaKey(resourceDefinition) ==
  IF HasGetKey(resourceDefinition.schema)
  THEN resourceDefinition.schema.key
  ELSE IF HasGetItemSchema(resourceDefinition.schema)
  THEN resourceDefinition.schema.item.key
  ELSE TypeError

(***************************************************************************)
(* The cache state, state.connect: paramsToResources maps a request key to *)
(* undefined or to a ledger entry {meta, data}; resources maps a schema    *)
(* key to undefined or to a bucket of entities by id.                      *)
(***************************************************************************)
Meta(isFetching, didInvalidate, error) ==
  [isFetching |-> isFetching, didInvalidate |-> didInvalidate, error |-> error]
Entry(meta, data) == [t |-> "entry", meta |-> meta, data |-> data]
Bucket(byId) == [t |-> "bucket", byId |-> byId]
NoData == [k \in SchemaKeys |-> Undefined]
TransportError == [t |-> "error"]

\* resourceKeys.map((id) => resources[key][id])
MapIds_reversed(resourceKeys, bucket) ==
  Arr([i \in DOMAIN resourceKeys.items |->
        bucket.byId[resourceKeys.items[Len(resourceKeys.items) + 1 - i].n]])
MapIds(resourceKeys, bucket) ==
  Arr([i \in DOMAIN resourceKeys.items |-> bucket.byId[resourceKeys.items[i].n]])

\* mappedResources[0]
First(mappedResources) ==
  IF Len(mappedResources.items) = 0 THEN Undefined ELSE mappedResources.items[1]

\* if (!resourceKeys || resourceMap.meta.didInvalidate) return false
IsMiss_ignoresInvalidate(resourceMap, resourceKeys) ==
  ~Truthy(resourceKeys)
IsMiss(resourceMap, resourceKeys) ==
  ~Truthy(resourceKeys) \/ resourceMap.meta.didInvalidate

Result(meta, value) == [t |-> "result", meta |-> meta, value |-> value]

findInState(state, resourceDefinition) ==
  LET paramsToResources == state.paramsToResources
      resources == state.resources
      isArray == Truthy(resourceDefinition.isArray)
      defaultValue == resourceDefinition.defaultValue
      key == schemaKey(resourceDefinition)
      resourceMap == paramsToResources[resourceDefinition.requestKey]
      resourceKeys == IF Truthy(resourceMap) THEN resourceMap.data[key] ELSE resourceMap
  IN IF IsMiss(resourceMap, resourceKeys)
     THEN False
     ELSE LET mappedResources ==
                IF Truthy(resources[key])
                THEN MapIds(resourceKeys, resources[key])
                ELSE resourceMap.data[key]
              value ==
                IF ~Truthy(mappedResources) THEN defaultValue
                ELSE IF ~isArray THEN First(mappedResources)
                ELSE mappedResources
          IN Result(resourceMap.meta, value)

(***************************************************************************)
(* The normalized definitions the resolver is asked about: isArray is      *)
(* !schema.getKey, defaultValue is [] or {} unless the definition gives    *)
(* one (here a placeholder).                                               *)
(***************************************************************************)
Placeholder == [t |-> "placeholder"]
Schemas == {Singular(k) : k \in SchemaKeys} \cup {Collection(k) : k \in SchemaKeys}

\* definition.isArray = !definition.schema.getKey
IsArrayOf_collectionOnly(schema) == Bool(HasGetItemSchema(schema))
IsArrayOf(schema) == Bool(~HasGetKey(schema))

\* definition.isArray ? [] : {}
DefaultValueOf(isArray) == IF Truthy(isArray) THEN Arr(<<>>) ELSE EmptyObject

NormalizedDefinition(key, schema, explicitDefault) ==
  [requestKey |-> key,
   schema |-> schema,
   isArray |-> IsArrayOf(schema),
   defaultValue |-> IF explicitDefault = Undefined
                    THEN DefaultValueOf(IsArrayOf(schema))
                    ELSE explicitDefault]

CacheDefinitions ==
  {NormalizedDefinition(k, s, d) :
     k \in RequestKeys, s \in Schemas, d \in {Undefined, Placeholder}}

(***************************************************************************)
(* The merge strategies of the reducer, on id lists.                       *)
(***************************************************************************)
Strategies == {"replace", "append", "prepend", "remove", "none"}

\* the updateStrategy a request's responses are merged under: 17 is a GET
\* resource, 42 a mutation, whose responses leave its id list alone
UpdateStrategies ==
  [k \in RequestKeys |-> IF k = 17 THEN Strategies \ {"none"} ELSE {"none"}]

Without(s, t) == SelectSeq(s, LAMBDA x : x \notin Range(t))

MergeIds(strategy, old, incoming) ==
  LET oldItems == IF Truthy(old) THEN old.items ELSE <<>>
  IN CASE strategy = "replace" -> Arr(incoming)
       [] strategy = "append" -> Arr(oldItems \o Without(incoming, oldItems))
       [] strategy = "prepend" -> Arr(incoming \o Without(oldItems, incoming))
       [] strategy = "remove" -> Arr(Without(oldItems, incoming))
       [] OTHER -> old

\* the entity types responses carry; no response carries a "post"
ResponseKeys == {"user"}
\* a response is raw (not normalized: no entities are written) or carries
\* entities with one of the names
Payloads == {"raw"} \cup Names

\* the entities of a response are written into the bucket of their type
WriteEntities(resources, key, incoming, name) ==
  LET old == IF Truthy(resources[key])
             THEN resources[key].byId
             ELSE [i \in Ids |-> Undefined]
  IN [resources EXCEPT ![key] =
        Bucket([i \in Ids |-> IF Num(i) \in Range(incoming)
                              THEN Entity(i, name) ELSE old[i]])]

Resolved(d, out) == [t |-> "resolved", def |-> d, out |-> out]

InitCache ==
  /\ connect = [paramsToResources |-> [k \in RequestKeys |-> Undefined],
                resources |-> [k \in SchemaKeys |-> Undefined]]
  /\ last = NoResult
  /\ args = NoResult
  /\ ret = NoResult

\* a dispatch: the reducer's new state. Nothing is dispatched while a
\* component is inside findInState, which runs to its end without yielding.
Dispatch(state) ==
  /\ last = NoResult
  /\ connect' = state
  /\ UNCHANGED <<last, args, ret>>

\* prepopulate: a placeholder entry for a request with no entry yet
Prepopulate(k) ==
  /\ ~Truthy(connect.paramsToResources[k])
  /\ Dispatch([connect EXCEPT !.paramsToResources[k] =
                 Entry(Meta(FALSE, FALSE, Undefined), NoData)])

\* a fetch is dispatched: the entry is created if need be, isFetching is set
FetchStart(k) ==
  LET e == connect.paramsToResources[k]
  IN /\ Truthy(e) => ~e.meta.isFetching
     /\ Dispatch([connect EXCEPT !.paramsToResources[k] =
                    IF Truthy(e)
                    THEN Entry([e.meta EXCEPT !.isFetching = TRUE], e.data)
                    ELSE Entry(Meta(TRUE, FALSE, Undefined), NoData)])

\* a response lands: its entities are written (when the payload is
\* normalized) and the request's id list is merged under the strategy
FetchSuccess(k, key, incoming, strategy, payload) ==
  LET e == connect.paramsToResources[k]
  IN /\ Truthy(e)
     /\ e.meta.isFetching
     /\ Dispatch(
          [paramsToResources |->
             [connect.paramsToResources EXCEPT ![k] =
                Entry(Meta(FALSE, FALSE, Undefined),
                      [e.data EXCEPT ![key] = MergeIds(strategy, e.data[key], incoming)])],
           resources |->
             IF payload = "raw"
             THEN connect.resources
             ELSE WriteEntities(connect.resources, key, incoming, payload)])

\* a transport failure is recorded in meta.error
FetchError(k) ==
  LET e == connect.paramsToResources[k]
  IN /\ Truthy(e)
     /\ e.meta.isFetching
     /\ Dispatch([connect EXCEPT !.paramsToResources[k] =
                    Entry([e.meta EXCEPT !.isFetching = FALSE,
                                         !.error = TransportError], e.data)])

\* invalidate, and refetchAfter on the source GET's entry
Invalidate(k) ==
  LET e == connect.paramsToResources[k]
  IN /\ Truthy(e)
     /\ ~e.meta.didInvalidate
     /\ Dispatch([connect EXCEPT !.paramsToResources[k] =
                    Entry([e.meta EXCEPT !.didInvalidate = TRUE], e.data)])

\* a component resolves its definition against the state
Resolve(d) ==
  /\ last = NoResult
  /\ last' = Resolved(d, findInState(connect, d))
  /\ UNCHANGED <<connect, args, ret>>

\* the component has its result
Return ==
  /\ last # NoResult
  /\ last' = NoResult
  /\ UNCHANGED <<connect, args, ret>>

NextCache ==
  \/ \E k \in RequestKeys : Prepopulate(k)
  \/ \E k \in RequestKeys : FetchStart(k)
  \/ \E k \in RequestKeys, key \in ResponseKeys, incoming \in IdLists,
        payload \in Payloads :
        \E strategy \in UpdateStrategies[k] :
        FetchSuccess(k, key, incoming, strategy, payload)
  \/ \E k \in RequestKeys : FetchError(k)
  \/ \E k \in RequestKeys : Invalidate(k)
  \/ \E d \in CacheDefinitions : Resolve(d)
  \/ Return

Spec == InitCache /\ [][NextCache]_vars

(***************************************************************************)
(* The requests whose keys are derived: a method, a url, headers and a     *)
(* body. Two requests are derived side by side, to compare their keys.     *)
(***************************************************************************)
KeyNames == {<<"a">>, <<"b">>}
Numbers == 1..MaxNum
Primitives ==
  {Num(n) : n \in Numbers} \cup {Str(Digits(n)) : n \in Numbers} \cup {Null}

\* the objects with at most two properties, keys from KeyNames, values from V
ObjectsOver(V) ==
  {Obj(<<>>)}
  \cup {Obj(<<Prop(k, v)>>) : k \in KeyNames, v \in V}
  \cup {Obj(<<Prop(kk[1], v1), Prop(kk[2], v2)>>) :
          kk \in {x \in KeyNames \X KeyNames : x[1] # x[2]}, v1 \in V, v2 \in V}

NestedObjects == ObjectsOver({Num(n) : n \in Numbers})
ParamValues == Primitives \cup NestedObjects
\* headers, a body or params: absent, or an object
ParamObjects == {Undefined} \cup ObjectsOver(ParamValues)

KeysOf(obj) == IF obj.t = "object" THEN {obj.props[i].k : i \in DOMAIN obj.props} ELSE {}
ValueAt(obj, k) == LET i == CHOOSE j \in DOMAIN obj.props : obj.props[j].k = k
                   IN obj.props[i].v

\* deep equality, the order of the keys ignored at every level
RECURSIVE SameIgnoringOrder(_, _)
SameIgnoringOrder(v, w) ==
  IF v.t = "object" /\ w.t = "object"
  THEN /\ KeysOf(v) = KeysOf(w)
       /\ \A k \in KeysOf(v) : SameIgnoringOrder(ValueAt(v, k), ValueAt(w, k))
  ELSE v.t = w.t /\ v = w

\* the same keys, and the value of exactly one of them differs
DifferInOneValue(p, q) ==
  /\ p.t = "object"
  /\ q.t = "object"
  /\ KeysOf(p) = KeysOf(q)
  /\ Cardinality({k \in KeysOf(p) :
                    ~SameIgnoringOrder(ValueAt(p, k), ValueAt(q, k))}) = 1

GET == <<"G", "E", "T">>
POST == <<"P", "O", "S", "T">>
UrlA == <<"h", "t", "t", "p", ":", "/", "/", "a">>
\* methods and urls, some of them holding the delimiter of the key string
Methods == {Str(GET), Str(POST), Str(GET \o <<"|">> \o UrlA)}
Urls == {Str(UrlA), Str(UrlA \o <<"/", "u">>), Str(UrlA \o <<"|">>),
         Str(<<"|">> \o UrlA), Str(<<>>)}

Request(method, url, headers, body) ==
  [method |-> method, url |-> url, headers |-> headers, body |-> body]

\* the objects equal to v up to the order of their keys, at every level
RECURSIVE Reordered(_)
Reordered(v) ==
  IF v.t # "object" THEN {v}
  ELSE IF Len(v.props) = 0 THEN {v}
  ELSE IF Len(v.props) = 1
  THEN {Obj(<<Prop(v.props[1].k, w)>>) : w \in Reordered(v.props[1].v)}
  ELSE LET InOrder(p1, p2) ==
             {Obj(<<Prop(p1.k, w1), Prop(p2.k, w2)>>) :
                w1 \in Reordered(p1.v), w2 \in Reordered(p2.v)}
       IN InOrder(v.props[1], v.props[2]) \cup InOrder(v.props[2], v.props[1])

\* the objects that are p but for the value of one key
OneValueChanged(p) ==
  IF p.t # "object" THEN {}
  ELSE UNION {{Obj([p.props EXCEPT ![i] = Prop(@.k, v)]) :
                 v \in ParamValues \ Reordered(p.props[i].v)} :
              i \in DOMAIN p.props}

\* the objects some p is compared with: p up to the order of its keys, and
\* p but for one value
RelatedTo(p) == Reordered(p) \cup OneValueChanged(p)

\* two requests that differ in their headers, or in their body
PairOf(p, q, inBody) ==
  IF inBody
  THEN [a |-> Request(Str(POST), Str(UrlA), Obj(<<Prop(<<"a">>, Num(1))>>), p),
        b |-> Request(Str(POST), Str(UrlA), Obj(<<Prop(<<"a">>, Num(1))>>), q)]
  ELSE [a |-> Request(Str(GET), Str(UrlA), p, Undefined),
        b |-> Request(Str(GET), Str(UrlA), q, Undefined)]

\* the pairs of requests that are compared: the same request but for the
\* headers or the body, which are the same up to the order of their keys or
\* differ in one value; or no headers and no body, and any two methods and
\* urls
InitKey ==
  /\ connect = NoResult
  /\ last = NoResult
  /\ ret = NoResult
  /\ \/ \E p \in ParamObjects : \E q \in RelatedTo(p) : \E inBody \in BOOLEAN :
          args = PairOf(p, q, inBody)
     \/ \E m1 \in Methods, m2 \in Methods, u1 \in Urls, u2 \in Urls :
          args = [a |-> Request(m1, u1, Undefined, Undefined),
                  b |-> Request(m2, u2, Undefined, Undefined)]

\* requestKey's normalizeParams replaces the nested values of the caller's
\* headers and body by their JSON text
AfterRequestKey(request) ==
  [request EXCEPT !.headers = IF @ = Undefined THEN @ ELSE StringifyNested(@),
                  !.body = IF @ = Undefined THEN @ ELSE StringifyNested(@)]

\* requestKey is called on the one request, then on the other
DeriveKeys ==
  /\ ret = NoResult
  /\ ret' = [t |-> "keys",
             given |-> args,
             stringA |-> KeyString(args.a),
             stringB |-> KeyString(args.b),
             keyA |-> requestKey(args.a),
             keyB |-> requestKey(args.b)]
  /\ args' = [a |-> AfterRequestKey(args.a), b |-> AfterRequestKey(args.b)]
  /\ UNCHANGED <<connect, last>>

NextKey == DeriveKeys

SpecKey == InitKey /\ [][NextKey]_vars

(***************************************************************************)
(* Resource definitions: a definition gives each field a value, or leaves  *)
(* it out (undefined).                                                     *)
(***************************************************************************)
FieldNames ==
  {"schema", "url", "params", "method", "headers", "body", "auto", "store",
   "defaultValue", "extends", "normalize", "actions", "clientOnly",
   "isArray", "requestKey"}

NoFields == [f \in FieldNames |-> Undefined]
Function(name) == [t |-> "function", name |-> name]
InvariantViolation == [t |-> "throw", error |-> "Invariant Violation"]
Returned(value) == [t |-> "returned", value |-> value]

definitionDefaults ==
  [NoFields EXCEPT !.method = Str(GET),
                   !.normalize = Function("normalize"),
                   !.actions = Obj(<<>>),
                   !.extends = Obj(<<>>),
                   !.clientOnly = False]

\* { ...lower, ...upper }: the fields upper gives win
Spread(lower, upper) ==
  [f \in FieldNames |-> IF upper[f] # Undefined THEN upper[f] ELSE lower[f]]

\* definition.extends || {}
ExtendsOf(definition) ==
  IF definition.extends \in {Undefined, Obj(<<>>)} THEN NoFields ELSE definition.extends

\* { ...definitionDefaults, ...(definition.extends || {}), ...definition }
MergeDefinition(definition) ==
  Spread(Spread(definitionDefaults, ExtendsOf(definition)), definition)

\* /\?[^#]/.test(url)
HasQueryString_never(url) == FALSE
HasQueryString(url) ==
  LET s == StringOf(url)
  IN \E i \in 1..(Len(s) - 1) : s[i] = "?" /\ s[i + 1] # "#"

\* str.toUpperCase()
UpperChar(c) == IF CharCode(c) \in 97..122 THEN Ascii[CharCode(c) - 64] ELSE c
toUpperCase(s) == [i \in DOMAIN s |-> UpperChar(s[i])]

\* url.replace(/\/+$/, '')
RECURSIVE StripTrailingSlashes(_)
StripTrailingSlashes(s) ==
  IF s # <<>> /\ s[Len(s)] = "/"
  THEN StripTrailingSlashes(SubSeq(s, 1, Len(s) - 1))
  ELSE s

\* the first index of c in s, or 0
IndexOf(s, c) ==
  IF \E i \in DOMAIN s : s[i] = c
  THEN CHOOSE i \in DOMAIN s : s[i] = c /\ \A j \in 1..(i - 1) : s[j] # c
  ELSE 0

\* normalize-url, as far as the urls of the model go: the fragment is
\* dropped, the slash that ends the path is removed, and so is a query
\* string that is empty
normalizeUrl(s) ==
  LET hash == IndexOf(s, "#")
      noFragment == IF hash = 0 THEN s ELSE SubSeq(s, 1, hash - 1)
      mark == IndexOf(noFragment, "?")
      path == IF mark = 0 THEN noFragment ELSE SubSeq(noFragment, 1, mark - 1)
      query == IF mark = 0 THEN <<>> ELSE SubSeq(noFragment, mark + 1, Len(noFragment))
      trimmed == IF path # <<>> /\ path[Len(path)] = "/"
                 THEN SubSeq(path, 1, Len(path) - 1)
                 ELSE path
  IN IF query = <<>> THEN trimmed ELSE trimmed \o <<"?">> \o query

fullUrl(url, params) ==
  LET stripped == StripTrailingSlashes(url.s)
      withQuery == IF Truthy(params)
                   THEN stripped \o <<"/", "?">> \o normalizeParams(params)
                   ELSE stripped
  IN Str(normalizeUrl(withQuery))

\* an object normalizeParams was called on: its nested values are JSON text
Stringified(params) == IF params = Undefined THEN params ELSE StringifyNested(params)

normalizeResourceDefinition(definition) ==
  LET merged == MergeDefinition(definition)
  IN IF merged.schema = Undefined THEN InvariantViolation
     ELSE IF HasQueryString(merged.url) THEN InvariantViolation
     ELSE IF merged.url = Undefined THEN TypeError
     ELSE LET url == fullUrl(merged.url, merged.params)
              method == Str(toUpperCase(merged.method.s))
              isArray == IsArrayOf(merged.schema)
              keyed == [merged EXCEPT !.url = url, !.method = method,
                                      !.isArray = isArray,
                                      !.params = Stringified(@)]
              isGet == method = Str(GET)
          IN Returned(
               [keyed EXCEPT
                  !.requestKey = requestKey(keyed),
                  !.headers = Stringified(@),
                  !.body = Stringified(@),
                  !.defaultValue = IF @ = Undefined THEN DefaultValueOf(isArray) ELSE @,
                  !.auto = IF isGet /\ @ = Undefined THEN True ELSE @,
                  !.store = IF isGet /\ @ = Undefined THEN True ELSE @])

\* the caller's definition after the call: the params, headers and body it
\* holds (its own, or those of the definition it extends) are the objects
\* normalizeParams has written to
AfterNormalize(definition) ==
  IF normalizeResourceDefinition(definition).t = "throw" THEN definition
  ELSE LET own(f) == definition[f] # Undefined
           ext == ExtendsOf(definition)
       IN [f \in FieldNames |->
             IF f \in {"params", "headers", "body"} THEN Stringified(definition[f])
             ELSE IF f = "extends" /\ definition.extends \notin {Undefined, Obj(<<>>)}
             THEN [g \in FieldNames |->
                     IF g \in {"params", "headers", "body"} /\ ~own(g)
                     THEN Stringified(ext[g]) ELSE ext[g]]
             ELSE definition[f]]

(***************************************************************************)
(* The raw definitions that are normalized.                                *)
(***************************************************************************)
\* the definitions extended have a depth of at most MaxDepth
MaxDepth == 2

UrlU == UrlA \o <<"/", "u">>
DefinitionUrls ==
  {Str(UrlU), Str(UrlU \o <<"/">>), Str(UrlU \o <<"?", "x", "=", "1">>),
   Str(UrlU \o <<"?">>), Str(UrlU \o <<"?", "#", "f">>)}
DefinitionMethods ==
  {Undefined, Str(GET), Str(<<"g", "e", "t">>), Str(<<"p", "o", "s", "t">>)}
DefinitionSchemas == {Undefined, Singular("user"), Collection("user"), Shorthand("user")}
NestedParams ==
  Obj(<<Prop(<<"b">>, Obj(<<Prop(<<"b">>, Num(1)), Prop(<<"a">>, Num(1))>>)),
        Prop(<<"a">>, Num(1))>>)
DefinitionParams == {Undefined, Obj(<<>>), NestedParams}
DefinitionHeaders ==
  {Undefined, Obj(<<Prop(<<"a">>, Obj(<<Prop(<<"b">>, Num(1))>>))>>)}
Flags == {Undefined, True, False}

\* the definitions with no extends
PlainDefinitions ==
  {[NoFields EXCEPT !.schema = schema, !.url = url, !.params = params,
                    !.method = method, !.headers = headers,
                    !.auto = auto, !.store = store, !.defaultValue = dv] :
     schema \in DefinitionSchemas, url \in DefinitionUrls,
     params \in DefinitionParams, method \in DefinitionMethods,
     headers \in DefinitionHeaders, auto \in Flags, store \in Flags,
     dv \in {Undefined, Placeholder}}

\* the definitions that are extended: a schema, a method and auto, each given
\* or not, and a definition extended in turn, down to the depth n
RECURSIVE ExtendedDefinitions(_)
ExtendedDefinitions(n) ==
  IF n = 0 THEN {Undefined}
  ELSE {Undefined} \cup
       {[NoFields EXCEPT !.schema = schema, !.method = method, !.auto = auto,
                         !.extends = extends] :
          schema \in {Undefined, Singular("post")},
          method \in {Undefined, Str(<<"p", "u", "t">>)},
          auto \in {Undefined, False},
          extends \in ExtendedDefinitions(n - 1)}

\* the definitions that extend another
ExtendingDefinitions ==
  {[NoFields EXCEPT !.schema = schema, !.url = Str(UrlU), !.method = method,
                    !.extends = extends] :
     schema \in {Undefined, Collection("user")},
     method \in {Undefined, Str(<<"g", "e", "t">>)},
     extends \in ExtendedDefinitions(MaxDepth) \ {Undefined}}

RawDefinitions == PlainDefinitions \cup ExtendingDefinitions

InitDef ==
  /\ connect = NoResult
  /\ last = NoResult
  /\ args \in RawDefinitions
  /\ ret = NoResult

\* normalizeResourceDefinition is called on the raw definition
Normalize ==
  /\ ret = NoResult
  /\ ret' = [t |-> "normalized",
             given |-> args,
             first |-> normalizeResourceDefinition(args),
             second |-> NoResult]
  /\ args' = AfterNormalize(args)
  /\ UNCHANGED <<connect, last>>

\* the definition returned is normalized again (computeExternalPayload
\* normalizes the definition it is handed)
NormalizeAgain ==
  /\ ret # NoResult
  /\ ret.first.t = "returned"
  /\ ret.second = NoResult
  /\ ret' = [ret EXCEPT !.second = normalizeResourceDefinition(ret.first.value)]
  /\ UNCHANGED <<connect, last, args>>

NextDef == Normalize \/ NormalizeAgain

SpecDef == InitDef /\ [][NextDef]_vars

(***************************************************************************)
(* The resolver's claims, under Spec.                                      *)
(***************************************************************************)
IsResolved == last.t = "resolved"
IsHit == IsResolved /\ last.out.t = "result"
\* the ledger entry of the resolved definition, and its id list
EntryOfLast == connect.paramsToResources[last.def.requestKey]
IdsOfLast == EntryOfLast.data[schemaKey(last.def)]
BucketOfLast == connect.resources[schemaKey(last.def)]

\* C1: findInState returns a Miss (false) exactly when there is no ledger
\* entry under the definition's requestKey, or the entry's data has nothing
\* under the schema's key, or the entry's meta.didInvalidate is true; in
\* every other case (an empty recorded id list too) it returns a Hit.
C1_MissExactlyWhen ==
  IsResolved =>
    /\ last.out = False <=>
          \/ EntryOfLast = Undefined
          \/ IdsOfLast = Undefined
          \/ EntryOfLast.meta.didInvalidate
    /\ last.out # False => last.out.t = "result"

\* a resolve of an invalidated entry that has an id list: a Miss
C1_Witness ==
  /\ IsResolved
  /\ EntryOfLast # Undefined
  /\ IdsOfLast # Undefined
  /\ EntryOfLast.meta.didInvalidate
  /\ last.out = False

\* C2: on a Hit where the store has a bucket for the schema's type, the
\* value is the join of the recorded ids against the store of the state
\* passed to the call: for an array definition the current entities of the
\* recorded ids, in the recorded order and one per id; for a non-array
\* definition the current entity of the first recorded id.
C2_LiveJoin ==
  (IsHit /\ BucketOfLast # Undefined) =>
    LET ids == IdsOfLast.items
        live(i) == BucketOfLast.byId[ids[i].n]
    IN IF last.def.isArray = True
       THEN /\ last.out.value.t = "array"
            /\ Len(last.out.value.items) = Len(ids)
            /\ \A i \in DOMAIN ids : last.out.value.items[i] = live(i)
       ELSE Len(ids) > 0 => last.out.value = live(1)

\* an array Hit over two recorded ids whose entities differ
C2_Witness ==
  /\ IsHit
  /\ BucketOfLast # Undefined
  /\ last.def.isArray = True
  /\ Len(IdsOfLast.items) = 2
  /\ last.out.value.items[1].t = "entity"
  /\ last.out.value.items[2].t = "entity"
  /\ last.out.value.items[1] # last.out.value.items[2]

\* the resolved value is empty or absent: the recorded id list is empty, or
\* the join against the bucket yields no entity
EmptyOrAbsent ==
  \/ Len(IdsOfLast.items) = 0
  \/ /\ BucketOfLast # Undefined
     /\ \A i \in DOMAIN IdsOfLast.items :
          BucketOfLast.byId[IdsOfLast.items[i].n] = Undefined

\* C8: on a Hit whose resolved value is empty or absent, the value is the
\* definition's defaultValue, for array and non-array definitions alike,
\* and is never undefined.
C8_DefaultOnEmpty ==
  (IsHit /\ EmptyOrAbsent) =>
    /\ last.out.value = last.def.defaultValue
    /\ last.out.value # Undefined

\* C9: a resolve against an entry that is invalidated or has meta.error set
\* gives a result that differs from the result of a resolve against a
\* requestKey that was never requested (no ledger entry).
C9_MissDistinguishable ==
  (/\ IsResolved
   /\ EntryOfLast # Undefined
   /\ EntryOfLast.meta.didInvalidate \/ EntryOfLast.meta.error # Undefined) =>
    \A d \in CacheDefinitions :
      connect.paramsToResources[d.requestKey] = Undefined =>
        last.out # findInState(connect, d)

(***************************************************************************)
(* The claims on the cache key, under SpecKey.                             *)
(***************************************************************************)
HasKeys == ret.t = "keys"

\* C3: two requests with the same method and url, whose headers and whose
\* bodies are deeply equal once the order of the keys is ignored at every
\* nesting level, get the same canonical string and the same requestKey.
C3_OrderIndependent ==
  (/\ HasKeys
   /\ ret.given.a.method = ret.given.b.method
   /\ ret.given.a.url = ret.given.b.url
   /\ SameIgnoringOrder(ret.given.a.headers, ret.given.b.headers)
   /\ SameIgnoringOrder(ret.given.a.body, ret.given.b.body)) =>
    /\ ret.stringA = ret.stringB
    /\ ret.keyA = ret.keyB

\* the fields in which two requests differ
DifferingFields(r1, r2) ==
  {f \in {"method", "url"} : r1[f] # r2[f]}
  \cup {f \in {"headers", "body"} : ~SameIgnoringOrder(r1[f], r2[f])}

\* the two requests differ in a single field: the method, the url, the value
\* of one header or the value of one body field
DifferInOneField(r1, r2) ==
  /\ Cardinality(DifferingFields(r1, r2)) = 1
  /\ \A f \in DifferingFields(r1, r2) \cap {"headers", "body"} :
       DifferInOneValue(r1[f], r2[f])

\* C4: two requests that differ in a single field (method, url, the value of
\* one header, the value of one body field) have different canonical strings
\* before hashing.
C4_Distinct ==
  (HasKeys /\ DifferInOneField(ret.given.a, ret.given.b)) =>
    ret.stringA # ret.stringB

(***************************************************************************)
(* The claims on normalizeResourceDefinition, under SpecDef.               *)
(***************************************************************************)
IsNormalized == ret.t = "normalized"
HasReturned == IsNormalized /\ ret.first.t = "returned"
IsNormalizedAgain == IsNormalized /\ ret.second # NoResult

\* the value a field has once the definition extended and the raw
\* definition are merged, undefined when neither gives it
GivenValue(definition, f) ==
  IF definition[f] # Undefined THEN definition[f] ELSE ExtendsOf(definition)[f]

IsGetMethod(method) ==
  IF method = Undefined THEN TRUE ELSE toUpperCase(method.s) = GET

\* C5: after normalizeResourceDefinition an explicitly set auto or store is
\* kept; when they are not set, both are true if the resolved method is GET
\* (in any letter case) and both are false if it is not.
C5_AutoStoreDefaults ==
  HasReturned =>
    \A f \in {"auto", "store"} :
      ret.first.value[f] =
        IF GivenValue(ret.given, f) # Undefined
        THEN GivenValue(ret.given, f)
        ELSE Bool(IsGetMethod(GivenValue(ret.given, "method")))

\* a ? followed by query text
HasQueryText(url) ==
  url # Undefined /\
  \E i \in DOMAIN url.s : url.s[i] = "?" /\ i < Len(url.s) /\ url.s[i + 1] # "#"

\* the definition must be refused: no schema after the merge, or a url with
\* a literal query string
MustBeRefused(definition) ==
  \/ GivenValue(definition, "schema") = Undefined
  \/ HasQueryText(GivenValue(definition, "url"))

RECURSIVE ChainValue(_, _)
ChainValue(definition, f) ==
  IF definition[f] # Undefined THEN definition[f]
  ELSE IF definition.extends \in {Undefined, Obj(<<>>)} THEN Undefined
  ELSE ChainValue(definition.extends, f)

ResolvedValue(definition, f) ==
  IF ChainValue(definition, f) # Undefined
  THEN ChainValue(definition, f)
  ELSE definitionDefaults[f]

\* C7: the value used for every field is the raw definition's own if it
\* gives the field, otherwise that of the nearest definition of the extends
\* chain that gives it (at any depth), otherwise the built-in default.
C7_FieldResolution ==
  (/\ IsNormalized
   /\ ResolvedValue(ret.given, "schema") # Undefined
   /\ ~HasQueryText(ResolvedValue(ret.given, "url"))
   /\ ResolvedValue(ret.given, "url") # Undefined) =>
    /\ ret.first.t = "returned"
    /\ ret.first.value.schema = ResolvedValue(ret.given, "schema")
    /\ ret.first.value.method =
         Str(toUpperCase(ResolvedValue(ret.given, "method").s))
    /\ ret.first.value.clientOnly = ResolvedValue(ret.given, "clientOnly")
    /\ ret.first.value.normalize = ResolvedValue(ret.given, "normalize")
    /\ ret.first.value.actions = ResolvedValue(ret.given, "actions")

\* the same url, method, requestKey, isArray, defaultValue, auto and store
SameNormalized(d1, d2) ==
  \A f \in {"url", "method", "requestKey", "isArray", "defaultValue", "auto", "store"} :
    d1[f] = d2[f]

\* C10 as stated: normalizing a normalized definition succeeds and returns
\* an equal definition, for every valid raw definition, with or without params.
C10_Idempotent ==
  IsNormalizedAgain =>
    /\ ret.second.t = "returned"
    /\ SameNormalized(ret.second.value, ret.first.value)

\* the raw definition has params that are not empty, and a url that holds
\* neither a ? nor a fragment
HasParams(definition) ==
  /\ GivenValue(definition, "params") \notin {Undefined, Obj(<<>>)}
  /\ \A i \in DOMAIN definition.url.s : definition.url.s[i] \notin {"?", "#"}

\* the raw definition has no params, or empty ones
HasNoParams(definition) ==
  GivenValue(definition, "params") \in {Undefined, Obj(<<>>)}

\* C10, amended: normalizing a normalized definition succeeds and returns an
\* equal definition when the raw definition has no params (or empty ones) and
\* the normalized url holds no query string; it raises the definition error
\* when the normalized url holds a query string, as it does when the raw
\* definition has params that are not empty and a url without ? and fragment.
C10_IdempotentWithoutQuery ==
  /\ (HasReturned /\ HasParams(ret.given)) => HasQueryText(ret.first.value.url)
  /\ IsNormalizedAgain =>
       /\ HasQueryText(ret.first.value.url) => ret.second = InvariantViolation
       /\ (HasNoParams(ret.given) /\ ~HasQueryText(ret.first.value.url)) =>
            /\ ret.second.t = "returned"
            /\ SameNormalized(ret.second.value, ret.first.value)

\* a definition with nested headers, a method in lower case and no params
\* has been normalized twice
C10_Witness ==
  /\ IsNormalizedAgain
  /\ ret.given.params = Undefined
  /\ ret.given.headers # Undefined
  /\ ret.given.method = Str(<<"g", "e", "t">>)
  /\ ret.second.t = "returned"
  /\ SameNormalized(ret.second.value, ret.first.value)

(***************************************************************************)
(* The classification of schemas.                                          *)
(***************************************************************************)
\* schemaKey throws on the schema: it has no getKey and no getItemSchema
SchemaKeyThrows(definition) ==
  ~HasGetKey(definition.schema) /\ ~HasGetItemSchema(definition.schema)

C12_Pure ==
  HasKeys =>
    /\ args.a.headers = ret.given.a.headers
    /\ args.a.body = ret.given.a.body
    /\ args.b.headers = ret.given.b.headers
    /\ args.b.body = ret.given.b.body
    /\ KeyString(args.a) = ret.stringA
    /\ KeyString(args.b) = ret.stringB

====
